---- MODULE Spec2Model ----
(***************************************************************************)
(* Model of aerobench/run_f16_sim.py: the simulation engine F16SimState    *)
(* (__init__, simulate_to), the single-shot driver run_f16_sim, the        *)
(* derivative evaluator der_func and get_extended_states.                  *)
(*                                                                         *)
(* Time is counted in integer ticks; the output step interval, the         *)
(* tolerance of simulate_to and the integrator's internal step size are    *)
(* whole numbers of ticks, so every comparison of simulate_to is exact.    *)
(* The per-aircraft state vector is reduced to <<vel, alpha, alt>> plus    *)
(* the controller's integral-error states.                                 *)
(*                                                                         *)
(* The collaborators that are not part of run_f16_sim.py (the integrator   *)
(* classes RK45 / Euler, the autopilot, controlled_f16) follow the         *)
(* contracts of spec.md sections 4.1 and 6.                                *)
(***************************************************************************)
EXTENDS Integers, Sequences, FiniteSets, TLC

VARIABLES
    initial_state,    \* the initial_state argument of the constructor
    step,             \* self.step: output step interval
    tol,              \* the tol argument of simulate_to
    extended_states,  \* self.extended_states
    integrator_str,   \* 'rk45' or 'euler'
    h_adapt,          \* internal step size the adaptive strategy chooses
    ap,               \* the autopilot: [mode, sw1, sw2, fin]
    times, states, modes,
    xd_list, u_list, Nz_list, ps_list, Ny_r_list,
    integrator,       \* self.integrator
    cur_sim_time,     \* self.cur_sim_time
    n_created,        \* number of integrator instances constructed so far
    n_calls,          \* number of simulate_to calls made on the engine
    last_call,        \* the latest simulate_to call: its argument, its
                      \* outcome and what the engine held on entry
    res,              \* outcome of run_f16_sim
    der_in, der_out   \* argument and outcome of a direct der_func call

vars == <<initial_state, step, tol, extended_states, integrator_str, h_adapt, ap, times,
          states, modes, xd_list, u_list, Nz_list, ps_list, Ny_r_list,
          integrator, cur_sim_time, n_created, n_calls, last_call, res,
          der_in, der_out>>

(***************************************************************************)
(* Bounds of the model.                                                    *)
(***************************************************************************)
MaxT == 6          \* largest target time a caller asks for
MaxCalls == 2      \* simulate_to calls made on one engine

(***************************************************************************)
(* State-vector layout.                                                    *)
(***************************************************************************)
NumStateNames == 3     \* len(get_state_names())
NumIntegrators == 1    \* llc.get_num_integrators()
VEL == 1               \* StateIndex.VEL
ALPHA == 2             \* StateIndex.ALPHA
ALT == 3               \* StateIndex.ALT
NumURef == 4           \* control reference entries per aircraft

num_vars == NumStateNames + NumIntegrators

Abs(x) == IF x < 0 THEN -x ELSE x
Last(s) == s[Len(s)]
Zeros(n) == [i \in 1..n |-> 0]
Slice(v, i, n) == SubSeq(v, n * (i - 1) + 1, n * i)

RECURSIVE Hstack(_)
Hstack(vs) == IF vs = <<>> THEN <<>> ELSE Head(vs) \o Hstack(Tail(vs))

(***************************************************************************)
(* The autopilot (spec.md section 6): a mode-advance, a termination        *)
(* predicate and a checked control reference.  Its behaviour is a fixed    *)
(* function of time: mode "A" before sw1, "B" from sw1, "C" from sw2; it   *)
(* declares completion from time fin on.  NoTime disables a threshold.  An *)
(* oscillating autopilot (osc) is in mode "A" at even and "B" at odd       *)
(* times.                                                                  *)
(***************************************************************************)
NoTime == 99

DesiredMode(a, t) ==
    IF a.osc THEN (IF t % 2 = 0 THEN "A" ELSE "B")
    ELSE IF t >= a.sw2 THEN "C" ELSE IF t >= a.sw1 THEN "B" ELSE "A"

\* ap.advance_discrete_mode(t, x): the autopilot after the call
advance_discrete_mode(a, t, x) == [a EXCEPT !.mode = DesiredMode(a, t)]

\* the value advance_discrete_mode returns: did the mode change
mode_changed_by(a, t, x) == DesiredMode(a, t) # a.mode

is_finished(a, t, x) == t >= a.fin

\* A collaborator may raise an exception of its own: a.bad names the call
\* that raises ("advance": the mode-advance, "finished": the termination
\* predicate, "extended": the extended-state evaluation, "dense": the
\* dense-output query, "none": no call) and a.bad_at the time from which on
\* it does.
Raises(a, what, t) == a.bad = what /\ t >= a.bad_at

ClimbOf(mode) == CASE mode = "A" -> 1 [] mode = "B" -> 3 [] OTHER -> 0

\* ap.get_checked_u_ref(t, full_state): 4 entries per aircraft
get_checked_u_ref(a, t, full_state) ==
    Hstack([i \in 1..(Len(full_state) \div num_vars) |->
               <<ClimbOf(a.mode), 0, 0, 0>>])

(***************************************************************************)
(* controlled_f16 (spec.md section 6, dynamics model): a pure function     *)
(* returning (xd, u, Nz, ps, Ny_r).  Altitude climbs at the commanded      *)
(* rate; the integral-error state integrates the altitude error, so the    *)
(* solution is not linear in time and depends on the integrator's steps.   *)
(***************************************************************************)
AltRef == 1000

controlled_f16(t, state, u_ref) ==
    [xd   |-> <<0, 0, u_ref[1], state[ALT] - AltRef + state[ALPHA]>>,
     u    |-> <<u_ref[4], 0, 0, 0, u_ref[1], u_ref[2], u_ref[3]>>,
     Nz   |-> u_ref[1],
     ps   |-> u_ref[2],
     Ny_r |-> state[ALPHA]]

(***************************************************************************)
(* make_der_func.der_func: the derivative of the concatenated state, or    *)
(* the error it raises.  err is "none", "SimModelError" (what names the    *)
(* offending quantity of the first offending aircraft) or                  *)
(* "AssertionError".                                                       *)
(***************************************************************************)
\* mutant: the altitude limit 100000 itself is accepted
AircraftError_AltInclusive(state) ==
    LET alpha == state[ALPHA]
        vel == state[VEL]
        alt == state[ALT]
    IN  IF ~(-2 < alpha /\ alpha < 2) THEN "alpha"
        ELSE IF ~(200 <= vel /\ vel <= 3000) THEN "velocity"
        ELSE IF ~(-10000 < alt /\ alt <= 100000) THEN "altitude"
        ELSE "none"

\* mutant: the airspeed limit 200 itself is rejected
AircraftError_VelStrict(state) ==
    LET alpha == state[ALPHA]
        vel == state[VEL]
        alt == state[ALT]
    IN  IF ~(-2 < alpha /\ alpha < 2) THEN "alpha"
        ELSE IF ~(200 < vel /\ vel <= 3000) THEN "velocity"
        ELSE IF ~(-10000 < alt /\ alt < 100000) THEN "altitude"
        ELSE "none"

\* der_func, lines 237-248: the check of one aircraft's sub-state
AircraftError(state) ==
    LET alpha == state[ALPHA]
        vel == state[VEL]
        alt == state[ALT]
    IN  IF ~(-2 < alpha /\ alpha < 2) THEN "alpha"
        ELSE IF ~(200 <= vel /\ vel <= 3000) THEN "velocity"
        ELSE IF ~(-10000 < alt /\ alt < 100000) THEN "altitude"
        ELSE "none"

\* mutant: the concatenated state is cut at the base length, without the
\* controller's integral-error states
der_func_BaseStride(a, t, full_state) ==
    LET u_refs == get_checked_u_ref(a, t, full_state)
        num_aircraft == Len(u_refs) \div NumURef
        sub(i) == Slice(full_state, i, NumStateNames) \o <<0>>
        bad == {i \in 1..num_aircraft : AircraftError(sub(i)) # "none"}
    IN  IF Len(full_state) \div num_vars # num_aircraft
        THEN [err |-> "AssertionError", what |-> "none", xd |-> <<>>]
        ELSE IF bad # {}
        THEN [err |-> "SimModelError", what |-> "none", xd |-> <<>>]
        ELSE [err |-> "none", what |-> "none",
              xd |-> Hstack([i \in 1..num_aircraft |->
                       controlled_f16(t, sub(i),
                                      Slice(u_refs, i, NumURef)).xd])]

der_func(a, t, full_state) ==
    LET u_refs == get_checked_u_ref(a, t, full_state)
        num_aircraft == Len(u_refs) \div NumURef
        sub(i) == Slice(full_state, i, num_vars)
        bad == {i \in 1..num_aircraft : AircraftError(sub(i)) # "none"}
        first == CHOOSE i \in bad : \A j \in bad : i <= j
    IN  IF Len(full_state) \div num_vars # num_aircraft
        THEN [err |-> "AssertionError", what |-> "none", xd |-> <<>>]
        ELSE IF bad # {}
        THEN [err |-> "SimModelError", what |-> AircraftError(sub(first)),
              xd |-> <<>>]
        ELSE [err |-> "none", what |-> "none",
              xd |-> Hstack([i \in 1..num_aircraft |->
                       controlled_f16(t, sub(i),
                                      Slice(u_refs, i, NumURef)).xd])]

(***************************************************************************)
(* get_extended_states: (xd, u, Nz, ps, Ny_r) at a time and state; single  *)
(* values for one aircraft, tuples in aircraft order for several.          *)
(***************************************************************************)
get_extended_states(a, t, full_state) ==
    LET num_aircraft == Len(full_state) \div num_vars
        u_refs == get_checked_u_ref(a, t, full_state)
        out(i) == controlled_f16(t, Slice(full_state, i, num_vars),
                                 Slice(u_refs, i, NumURef))
    IN  IF num_aircraft = 1
        THEN [xd |-> out(1).xd, u |-> out(1).u, Nz |-> out(1).Nz,
              ps |-> out(1).ps, Ny_r |-> out(1).Ny_r]
        ELSE [xd   |-> [i \in 1..num_aircraft |-> out(i).xd],
              u    |-> [i \in 1..num_aircraft |-> out(i).u],
              Nz   |-> [i \in 1..num_aircraft |-> out(i).Nz],
              ps   |-> [i \in 1..num_aircraft |-> out(i).ps],
              Ny_r |-> [i \in 1..num_aircraft |-> out(i).Ny_r]]

(***************************************************************************)
(* The integrator strategy (spec.md section 4.1).  An instance holds its   *)
(* status, its current time and state (t, y), the start of its last step   *)
(* (t_old, y_old) and the point it was constructed at (t0, y0); id tells   *)
(* instances apart.  step() advances by one                                *)
(* internal increment and turns an error of the derivative function into   *)
(* status "failed"; dense_output interpolates over the last step.          *)
(***************************************************************************)
\* integrator_class(der_func, t0, y0, np.inf, **kwargs)
NewIntegrator(id, t0, y0) ==
    [id |-> id, status |-> "running", t |-> t0, y |-> y0,
     t_old |-> t0, y_old |-> y0, stepped |-> FALSE, t0 |-> t0, y0 |-> y0]

\* the increment of one step(): fixed for Euler, chosen by the solver for RK45
StepSize == IF integrator_str = "euler" THEN step ELSE h_adapt

\* integrator.step(), with the autopilot a that der_func is bound to
IntegratorStep(integ, a) ==
    LET d == der_func(a, integ.t, integ.y)
    IN  IF integ.status # "running" THEN integ
        ELSE IF d.err # "none" THEN [integ EXCEPT !.status = "failed"]
        ELSE [integ EXCEPT !.t_old = integ.t, !.y_old = integ.y,
                           !.t = integ.t + StepSize,
                           !.y = [i \in 1..Len(integ.y) |->
                                     integ.y[i] + StepSize * d.xd[i]],
                           !.stepped = TRUE]

\* integrator.dense_output()(t)
dense_output(integ, t) ==
    [i \in 1..Len(integ.y) |->
        integ.y_old[i]
        + ((integ.y[i] - integ.y_old[i]) \div (integ.t - integ.t_old))
          * (t - integ.t_old)]

(***************************************************************************)
(* F16SimState.  An engine value s holds the fields of the object and the  *)
(* autopilot it drives; s.exc is the exception that left the last          *)
(* operation ("none" when it returned).                                    *)
(***************************************************************************)
\* mutant: every state is padded up to the next multiple of num_vars
PadState_ToMultiple(x) ==
    IF Len(x) % num_vars # 0 \/ Len(x) = 0
    THEN x \o Zeros(num_vars - (Len(x) % num_vars))
    ELSE x

\* __init__, lines 37-42: the initial state padded with zeros
PadState(x) ==
    IF Len(x) < num_vars THEN x \o Zeros(num_vars - Len(x)) ELSE x

\* __init__, line 44: the assertion on the padded length
SizeOk(x) == Len(PadState(x)) % num_vars = 0

\* __init__ for an initial state that passes the assertion of line 44
F16SimState_init(x, ap0, ext) ==
    LET x0 == PadState(x)
        ap1 == advance_discrete_mode(ap0, 0, x0)
        e == get_extended_states(ap1, 0, x0)
    IN  [times |-> <<0>>, states |-> <<x0>>, modes |-> <<ap1.mode>>,
         xd_list |-> IF ext THEN <<e.xd>> ELSE <<>>,
         u_list |-> IF ext THEN <<e.u>> ELSE <<>>,
         Nz_list |-> IF ext THEN <<e.Nz>> ELSE <<>>,
         ps_list |-> IF ext THEN <<e.ps>> ELSE <<>>,
         Ny_r_list |-> IF ext THEN <<e.Ny_r>> ELSE <<>>,
         integrator |-> NewIntegrator(1, 0, x0),
         cur_sim_time |-> 0, ap |-> ap1, n_created |-> 1,
         extended_states |-> ext, dense |-> {}, exc |-> "none"]

\* no integrator instance
NoIntegrator ==
    [id |-> 0, status |-> "none", t |-> 0, y |-> <<>>, t_old |-> 0,
     y_old |-> <<>>, stepped |-> FALSE, t0 |-> 0, y0 |-> <<>>]

\* no engine yet: what exists before __init__ has run, with the autopilot a
Unbuilt(a) ==
    [times |-> <<>>, states |-> <<>>, modes |-> <<>>, xd_list |-> <<>>,
     u_list |-> <<>>, Nz_list |-> <<>>, ps_list |-> <<>>, Ny_r_list |-> <<>>,
     integrator |-> NoIntegrator, cur_sim_time |-> 0, ap |-> a,
     n_created |-> 0, extended_states |-> FALSE, dense |-> {},
     exc |-> "none"]

\* F16SimState(initial_state, ap, ...): the assertion of line 44 raises
\* before anything is recorded and before the autopilot is called
F16SimState_new(x, ap0, ext) ==
    IF ~SizeOk(x) THEN [Unbuilt(ap0) EXCEPT !.exc = "AssertionError"]
    ELSE F16SimState_init(x, ap0, ext)

\* mutant: the sample time is replaced by tmax only when it is more than tol
\* beyond tmax
next_step_time_BeyondTol(s, tmax) ==
    IF Abs(Last(s.times) - tmax) > tol /\ Last(s.times) + step > tmax + tol
    THEN tmax
    ELSE Last(s.times) + step

\* mutant: the sample times advance by tol instead of step
next_step_time_TolStride(s, tmax) ==
    IF Abs(Last(s.times) - tmax) > tol /\ Last(s.times) + tol > tmax
    THEN tmax
    ELSE Last(s.times) + tol

\* simulate_to, lines 105-109: the next sample time
next_step_time(s, tmax) ==
    IF Abs(Last(s.times) - tmax) > tol /\ Last(s.times) + step > tmax
    THEN tmax
    ELSE Last(s.times) + step

\* mutant: the integrator is not advanced when it is exactly tol short of
\* the sample time
RECURSIVE advance_integrator_Strict(_, _, _)
advance_integrator_Strict(integ, a, nst) ==
    IF nst > integ.t + tol
    THEN LET i2 == IntegratorStep(integ, a)
         IN  IF i2.status # "running" THEN i2
             ELSE advance_integrator_Strict(i2, a, nst)
    ELSE integ

\* simulate_to, lines 117-121: advance the integrator past the sample time
RECURSIVE advance_integrator(_, _, _)
advance_integrator(integ, a, nst) ==
    IF nst >= integ.t + tol
    THEN LET i2 == IntegratorStep(integ, a)
         IN  IF i2.status # "running" THEN i2
             ELSE advance_integrator(i2, a, nst)
    ELSE integ

\* mutant: the integrator is kept across a mode change
reinit_integrator_Never(s, integ, mode_changed, t, x) == integ

\* simulate_to, lines 155-158: the integrator after a recorded sample
reinit_integrator(s, integ, mode_changed, t, x) ==
    IF mode_changed THEN NewIntegrator(s.n_created + 1, t, x) ELSE integ

\* mutant: the mode is recorded only when it differs from the last one
recorded_modes_OnChange(s, a) ==
    IF a.mode # Last(s.modes) THEN Append(s.modes, a.mode) ELSE s.modes

\* simulate_to, line 136: modes.append(ap.mode)
recorded_modes(s, a) == Append(s.modes, a.mode)

\* a dense-output query: the time asked for and the integrator's last step
dense_query(integ, t) ==
    [at |-> t, t_old |-> integ.t_old, t |-> integ.t, stepped |-> integ.stepped]

\* mutant: the extended state is evaluated before the mode-advance
extended_sample_BeforeAdvance(a_before, a_after, t, x) ==
    get_extended_states(a_before, t, x)

\* simulate_to, lines 139-141: the extended state of a sample, evaluated
\* with the autopilot as the mode-advance left it
extended_sample(a_before, a_after, t, x) ==
    get_extended_states(a_after, t, x)

\* mutant: the integrator is re-initialized on a mode change before the
\* autopilot is asked whether it has finished
record_sample_ReinitFirst(s, integ, nst) ==
    LET direct == Abs(integ.t - nst) < tol
        x == IF direct THEN integ.y ELSE dense_output(integ, nst)
        mode_changed == mode_changed_by(s.ap, nst, x)
        ap1 == advance_discrete_mode(s.ap, nst, x)
        e == get_extended_states(ap1, nst, x)
        ext == s.extended_states
        fin == is_finished(ap1, nst, x)
        base == reinit_integrator(s, integ, mode_changed, nst, x)
        newint == IF fin THEN [base EXCEPT !.status = "autopilot finished"]
                  ELSE base
    IN  IF ~direct /\ ~integ.stepped
        THEN [s EXCEPT !.times = Append(@, nst), !.integrator = integ,
                       !.exc = "RuntimeError"]
        ELSE
        [s EXCEPT !.times = Append(@, nst),
                  !.states = Append(@, x),
                  !.ap = ap1,
                  !.modes = recorded_modes(s, ap1),
                  !.xd_list = IF ext THEN Append(@, e.xd) ELSE @,
                  !.u_list = IF ext THEN Append(@, e.u) ELSE @,
                  !.Nz_list = IF ext THEN Append(@, e.Nz) ELSE @,
                  !.ps_list = IF ext THEN Append(@, e.ps) ELSE @,
                  !.Ny_r_list = IF ext THEN Append(@, e.Ny_r) ELSE @,
                  !.integrator = newint,
                  !.n_created = newint.id]

\* simulate_to, lines 126-158: record the sample at nst.  dense_output of an
\* integrator that has taken no step raises, after times.append.  An
\* exception of a collaborator leaves simulate_to at the call that raised
\* it, with what was appended before.
record_sample(s, integ, nst) ==
    LET direct == Abs(integ.t - nst) < tol
        x == IF direct THEN integ.y ELSE dense_output(integ, nst)
        mode_changed == mode_changed_by(s.ap, nst, x)
        ap1 == advance_discrete_mode(s.ap, nst, x)
        e == extended_sample(s.ap, ap1, nst, x)
        ext == s.extended_states
        fin == is_finished(ap1, nst, x)
        newint == IF fin THEN [integ EXCEPT !.status = "autopilot finished"]
                  ELSE reinit_integrator(s, integ, mode_changed, nst, x)
        queries == IF direct THEN s.dense
                   ELSE s.dense \cup {dense_query(integ, nst)}
    IN  IF ~direct /\ ~integ.stepped
        THEN [s EXCEPT !.dense = queries, !.times = Append(@, nst), !.integrator = integ,
                       !.exc = "RuntimeError"]
        ELSE IF ~direct /\ Raises(s.ap, "dense", nst)
        THEN [s EXCEPT !.dense = queries, !.times = Append(@, nst), !.integrator = integ,
                       !.exc = "CollaboratorError"]
        ELSE IF Raises(s.ap, "advance", nst)
        THEN [s EXCEPT !.dense = queries, !.times = Append(@, nst), !.states = Append(@, x),
                       !.integrator = integ, !.exc = "CollaboratorError"]
        ELSE IF ext /\ Raises(s.ap, "extended", nst)
        THEN [s EXCEPT !.dense = queries, !.times = Append(@, nst), !.states = Append(@, x),
                       !.ap = ap1, !.modes = recorded_modes(s, ap1),
                       !.integrator = integ, !.exc = "CollaboratorError"]
        ELSE IF Raises(s.ap, "finished", nst)
        THEN [s EXCEPT !.dense = queries, !.times = Append(@, nst), !.states = Append(@, x),
                       !.ap = ap1, !.modes = recorded_modes(s, ap1),
                       !.xd_list = IF ext THEN Append(@, e.xd) ELSE @,
                       !.u_list = IF ext THEN Append(@, e.u) ELSE @,
                       !.Nz_list = IF ext THEN Append(@, e.Nz) ELSE @,
                       !.ps_list = IF ext THEN Append(@, e.ps) ELSE @,
                       !.Ny_r_list = IF ext THEN Append(@, e.Ny_r) ELSE @,
                       !.integrator = integ, !.exc = "CollaboratorError"]
        ELSE
        [s EXCEPT !.dense = queries, !.times = Append(@, nst),
                  !.states = Append(@, x),
                  !.ap = ap1,
                  !.modes = recorded_modes(s, ap1),
                  !.xd_list = IF ext THEN Append(@, e.xd) ELSE @,
                  !.u_list = IF ext THEN Append(@, e.u) ELSE @,
                  !.Nz_list = IF ext THEN Append(@, e.Nz) ELSE @,
                  !.ps_list = IF ext THEN Append(@, e.ps) ELSE @,
                  !.Ny_r_list = IF ext THEN Append(@, e.Ny_r) ELSE @,
                  !.integrator = newint,
                  !.n_created = newint.id]

\* mutant: a sample time of exactly tmax + tol is still recorded
past_target_Strict(nst, tmax) == nst > tmax + tol

\* simulate_to, line 111: the sample time is beyond the target
past_target(nst, tmax) == nst >= tmax + tol

\* mutant: the loop tests the target only after recording a sample
RECURSIVE simulate_loop_TestAfter(_, _)
simulate_loop_TestAfter(s, tmax) ==
    LET nst == next_step_time(s, tmax)
        integ == advance_integrator(s.integrator, s.ap, nst)
    IN  IF integ.status # "running"
        THEN [s EXCEPT !.integrator = integ]
        ELSE LET s1 == record_sample(s, integ, nst)
             IN  IF \/ s1.integrator.status # "running"
                    \/ s1.exc # "none"
                    \/ past_target(next_step_time(s1, tmax), tmax)
                 THEN s1
                 ELSE simulate_loop_TestAfter(s1, tmax)

\* simulate_to, lines 104-158: the while True loop
RECURSIVE simulate_loop(_, _)
simulate_loop(s, tmax) ==
    LET nst == next_step_time(s, tmax)
        integ == advance_integrator(s.integrator, s.ap, nst)
    IN  IF past_target(nst, tmax) THEN s
        ELSE IF integ.status # "running"
        THEN [s EXCEPT !.integrator = integ]
        ELSE LET s1 == record_sample(s, integ, nst)
             IN  IF s1.integrator.status # "running" \/ s1.exc # "none"
                 THEN s1
                 ELSE simulate_loop(s1, tmax)

\* mutant: the target time is compared with the last recorded time
target_ok_LastRecorded(s, tmax) == tmax >= Last(s.times)

\* simulate_to, line 92: the assertion on the target time
target_ok(s, tmax) == tmax >= s.cur_sim_time

\* mutant: every call starts a new integrator at the last recorded sample
simulate_to_Reseed(s, tmax) ==
    IF ~target_ok(s, tmax) THEN [s EXCEPT !.exc = "AssertionError"]
    ELSE IF s.integrator.status # "running"
    THEN [s EXCEPT !.cur_sim_time = tmax, !.exc = "AssertionError"]
    ELSE simulate_loop(
             [s EXCEPT !.cur_sim_time = tmax, !.exc = "none",
                       !.integrator = NewIntegrator(s.n_created + 1,
                                                    Last(s.times),
                                                    Last(s.states)),
                       !.n_created = s.n_created + 1], tmax)

\* mutant: a call on an integrator that is no longer running starts a new one
\* at the last recorded sample
simulate_to_Resume(s, tmax) ==
    IF ~target_ok(s, tmax) THEN [s EXCEPT !.exc = "AssertionError"]
    ELSE IF s.integrator.status # "running"
    THEN simulate_loop(
             [s EXCEPT !.cur_sim_time = tmax, !.exc = "none",
                       !.integrator = NewIntegrator(s.n_created + 1,
                                                    Last(s.times),
                                                    Last(s.states)),
                       !.n_created = s.n_created + 1], tmax)
    ELSE simulate_loop([s EXCEPT !.cur_sim_time = tmax, !.exc = "none"], tmax)

\* simulate_to(tmax, tol), lines 84-163
simulate_to(s, tmax) ==
    IF ~target_ok(s, tmax) THEN [s EXCEPT !.exc = "AssertionError"]
    ELSE IF s.integrator.status # "running"
    THEN [s EXCEPT !.cur_sim_time = tmax, !.exc = "AssertionError"]
    ELSE simulate_loop([s EXCEPT !.cur_sim_time = tmax, !.exc = "none"], tmax)

(***************************************************************************)
(* run_f16_sim, lines 188-213: construct, simulate_to(tmax), the           *)
(* assertion on the final time, the result dict.  The engine it leaves     *)
(* behind is fss.                                                          *)
(***************************************************************************)
final_time_ok(fss, tmax) == Abs(Last(fss.times) - tmax) < tol

\* lines 191-213: what run_f16_sim hands back for the engine fss it ran
run_result(fss, tmax) ==
    IF fss.exc # "none"
    THEN [fss |-> fss,
          res |-> [kind |-> "raised", exc |-> fss.exc, tmax |-> tmax]]
    ELSE IF ~final_time_ok(fss, tmax)
    THEN [fss |-> fss,
          res |-> [kind |-> "raised", exc |-> "AssertionError",
                   tmax |-> tmax]]
    ELSE [fss |-> fss,
          res |-> [kind |-> "returned", tmax |-> tmax,
                   status |-> fss.integrator.status,
                   times |-> fss.times, states |-> fss.states,
                   modes |-> fss.modes]]

run_f16_sim(x, tmax, ap0, ext) ==
    run_result(simulate_to(F16SimState_init(x, ap0, ext), tmax),
               tmax)

(***************************************************************************)
(* The state machine.  Init is an engine right after construction, for     *)
(* every combination of the inputs below; the operations are simulate_to   *)
(* on that engine and run_f16_sim with the same inputs.                    *)
(***************************************************************************)
\* (step, tol): step below, at, and above tol and 2*tol
StepTol == {<<1, 1>>, <<1, 2>>, <<3, 2>>, <<4, 2>>, <<3, 1>>}

\* nominal and short; near the altitude limit; outside it; two aircraft;
\* two aircraft with the same initial conditions
InitialStates ==
    {<<500, 0, 1000>>, <<500, 1, 99998, 0>>, <<500, 0, 100000, 0>>,
     <<500, 0, 1000, 0, 500, 1, 99998, 0>>,
     <<500, 1, 99998, 0, 500, 1, 99998, 0>>}

ApInitMode == "A"

Autopilots ==
    {[mode |-> ApInitMode, sw1 |-> p[1], sw2 |-> p[2], fin |-> p[3],
      osc |-> FALSE, bad |-> "none", bad_at |-> NoTime] :
        p \in {<<NoTime, NoTime, NoTime>>, <<0, NoTime, NoTime>>,
               <<4, NoTime, NoTime>>, <<3, 6, NoTime>>,
               <<NoTime, NoTime, 4>>, <<4, NoTime, 4>>}}
    \cup {[mode |-> ApInitMode, sw1 |-> NoTime, sw2 |-> NoTime,
           fin |-> NoTime, osc |-> TRUE, bad |-> "none", bad_at |-> NoTime]}

\* the autopilots an initial state is run with: all of them for the nominal
\* state, the passive one for the state outside the envelope, the passive,
\* the twice-switching and the oscillating one for the others
AutopilotsFor(x) ==
    IF x = <<500, 0, 1000>> THEN Autopilots
    ELSE IF x = <<500, 0, 100000, 0>>
    THEN {a \in Autopilots : a.sw1 = NoTime /\ a.fin = NoTime /\ ~a.osc}
    ELSE {a \in Autopilots : a.sw1 \in {NoTime, 3} /\ a.fin = NoTime}

\* (integrator_str, internal step of the adaptive strategy)
Integrators == {<<"euler", 0>>, <<"rk45", 2>>, <<"rk45", 5>>}

Targets == 0..MaxT

Self ==
    [times |-> times, states |-> states, modes |-> modes,
     xd_list |-> xd_list, u_list |-> u_list, Nz_list |-> Nz_list,
     ps_list |-> ps_list, Ny_r_list |-> Ny_r_list,
     integrator |-> integrator, cur_sim_time |-> cur_sim_time,
     ap |-> ap, n_created |-> n_created,
     extended_states |-> extended_states, dense |-> {}, exc |-> "none"]

\* the engine as it was constructed
Fresh ==
    F16SimState_init(states[1], [ap EXCEPT !.mode = ApInitMode],
                     extended_states)

Becomes(r) ==
    /\ times' = r.times
    /\ states' = r.states
    /\ modes' = r.modes
    /\ xd_list' = r.xd_list
    /\ u_list' = r.u_list
    /\ Nz_list' = r.Nz_list
    /\ ps_list' = r.ps_list
    /\ Ny_r_list' = r.Ny_r_list
    /\ integrator' = r.integrator
    /\ cur_sim_time' = r.cur_sim_time
    /\ ap' = r.ap
    /\ n_created' = r.n_created

\* run_f16_sim leaves the engine r.fss behind and hands back r.res
Returns(r) == Becomes(r.fss) /\ res' = r.res

NoCall == [tmax |-> 0, exc |-> "none", prev_tmax |-> 0, t_before |-> 0,
           n_before |-> 0, cur_before |-> 0, status_before |-> "none",
           id_before |-> 0, dense |-> {}]
NoRes == [kind |-> "none"]
NoDer == [called |-> FALSE]

Constructed(x, ap0, ext) ==
    LET s == F16SimState_init(x, ap0, ext)
    IN  /\ times = s.times
        /\ states = s.states
        /\ modes = s.modes
        /\ xd_list = s.xd_list
        /\ u_list = s.u_list
        /\ Nz_list = s.Nz_list
        /\ ps_list = s.ps_list
        /\ Ny_r_list = s.Ny_r_list
        /\ integrator = s.integrator
        /\ cur_sim_time = s.cur_sim_time
        /\ ap = s.ap
        /\ n_created = s.n_created

Init ==
    /\ \E st \in StepTol : step = st[1] /\ tol = st[2]
    /\ \E ig \in Integrators : integrator_str = ig[1] /\ h_adapt = ig[2]
    /\ extended_states \in BOOLEAN
    /\ initial_state \in InitialStates
    /\ SizeOk(initial_state)
    /\ \E a \in AutopilotsFor(initial_state) :
          Constructed(initial_state, a, extended_states)
    /\ n_calls = 0
    /\ last_call = NoCall
    /\ res = NoRes
    /\ der_in = <<>>
    /\ der_out = NoDer

Params == <<initial_state, step, tol, extended_states, integrator_str, h_adapt>>

\* fss.simulate_to(tmax) on the engine
SimulateTo(tmax) ==
    /\ res.kind = "none"
    /\ n_calls < MaxCalls
    /\ Becomes(simulate_to(Self, tmax))
    /\ n_calls' = n_calls + 1
    /\ last_call' = [tmax |-> tmax, exc |-> simulate_to(Self, tmax).exc,
                     prev_tmax |-> last_call.tmax,
                     t_before |-> Last(times), n_before |-> Len(times),
                     cur_before |-> cur_sim_time,
                     status_before |-> integrator.status,
                     id_before |-> integrator.id,
                     dense |-> simulate_to(Self, tmax).dense]
    /\ UNCHANGED <<Params, res, der_in, der_out>>

\* run_f16_sim(initial_state, tmax, ap, step, extended_states, ...)
RunF16Sim(tmax) ==
    /\ res.kind = "none"
    /\ n_calls = 0
    /\ Returns(run_f16_sim(states[1], tmax, [ap EXCEPT !.mode = ApInitMode],
                           extended_states))
    /\ UNCHANGED <<Params, n_calls, last_call, der_in, der_out>>

Next ==
    \/ \E tmax \in Targets : SimulateTo(tmax)
    \/ \E tmax \in Targets : RunF16Sim(tmax)

Spec == Init /\ [][Next]_vars

(***************************************************************************)
(* der_func called directly: SpecDer draws a concatenated state of one or  *)
(* two aircraft whose components sit on and around the limits of the       *)
(* envelope, and an autopilot mode, and applies der_func to it.            *)
(***************************************************************************)
AlphaValues == {-3, -2, -1, 1, 2, 3}
VelValues == {199, 200, 3000, 3001}
AltValues == {-10001, -10000, -9999, 99999, 100000, 100001}
MaxAircraft == 2

\* one quantity at a time moved off a nominal state, and two at once
AircraftStates ==
    {<<500, 0, 1000, 0>>, <<199, 2, 1000, 0>>, <<3001, 0, 100000, 0>>,
     <<3000, 1, 99999, 0>>}
    \cup {<<v, 0, 1000, 0>> : v \in VelValues}
    \cup {<<500, al, 1000, 0>> : al \in AlphaValues}
    \cup {<<500, 0, h, 0>> : h \in AltValues}

RECURSIVE FullStates(_)
FullStates(n) ==
    IF n = 0 THEN {<<>>}
    ELSE {x \o y : x \in FullStates(n - 1), y \in AircraftStates}

DerInputs ==
    {[a |-> [mode |-> m, sw1 |-> NoTime, sw2 |-> NoTime, fin |-> NoTime,
             osc |-> FALSE, bad |-> "none", bad_at |-> NoTime],
      x |-> x] :
        m \in {"A", "B"},
        x \in UNION {FullStates(n) : n \in 1..MaxAircraft}}

InitDer ==
    /\ step = 1
    /\ tol = 1
    /\ integrator_str = "rk45"
    /\ h_adapt = 2
    /\ extended_states = FALSE
    /\ initial_state = <<500, 0, 1000>>
    /\ Constructed(initial_state,
                   [mode |-> ApInitMode, sw1 |-> NoTime, sw2 |-> NoTime,
                    fin |-> NoTime, osc |-> FALSE, bad |-> "none",
                    bad_at |-> NoTime],
                   FALSE)
    /\ n_calls = 0
    /\ last_call = NoCall
    /\ res = NoRes
    /\ der_in \in DerInputs
    /\ der_out = NoDer

\* der_func(t, full_state)
DerCall ==
    /\ ~der_out.called
    /\ der_out' = [called |-> TRUE, r |-> der_func(der_in.a, 0, der_in.x)]
    /\ UNCHANGED <<Params, ap, times, states, modes, xd_list, u_list, Nz_list,
                   ps_list, Ny_r_list, integrator, cur_sim_time, n_created,
                   n_calls, last_call, res, der_in>>

NextDer == DerCall

SpecDer == InitDer /\ [][NextDer]_vars

(***************************************************************************)
(* Properties.                                                             *)
(***************************************************************************)
StrictlyIncreasing(ts) == \A i \in 1..(Len(ts) - 1) : ts[i] < ts[i + 1]

\* C1: after construction and after every simulate_to call, however it
\* stopped, times, states and modes have the same length, times starts at 0
\* and times is strictly increasing.
C1_TrajectoryAligned ==
    /\ Len(times) = Len(states)
    /\ Len(states) = Len(modes)
    /\ times[1] = 0
    /\ StrictlyIncreasing(times)

\* a call that recorded samples and then stopped on an integrator failure
C1_Witness ==
    /\ n_calls >= 1
    /\ last_call.exc = "none"
    /\ integrator.status = "failed"
    /\ Len(times) > last_call.n_before

\* C2: a run that reaches the target time without integrator failure and
\* without the autopilot declaring completion returns status 'finished'.
C2_FinishedStatus ==
    (res.kind = "returned" /\ res.status \notin {"failed", "autopilot finished"})
        => res.status = "finished"

\* C5: run_f16_sim returns a result for every well-formed input, with the
\* engine's final status and every recorded sample, also when the integrator
\* fails or the autopilot declares completion before tmax.
C5_RunAlwaysReturns ==
    res.kind # "none" =>
        /\ res.kind = "returned"
        /\ res.status = integrator.status
        /\ res.times = times /\ res.states = states /\ res.modes = modes

\* C6: simulate_to(T) directly after simulate_to(T) appends nothing to any
\* list and leaves the integrator status as it was.
C6_Idempotent ==
    [][(n_calls >= 1 /\ n_calls' = n_calls + 1
        /\ last_call'.tmax = last_call.tmax)
       => /\ times' = times /\ states' = states /\ modes' = modes
          /\ xd_list' = xd_list /\ u_list' = u_list /\ Nz_list' = Nz_list
          /\ ps_list' = ps_list /\ Ny_r_list' = Ny_r_list
          /\ integrator'.status = integrator.status]_vars

\* the second of two equal calls was accepted on an engine that had recorded
\* samples and was still running
C6_Witness ==
    /\ n_calls = 2
    /\ last_call.prev_tmax = last_call.tmax
    /\ last_call.exc = "none"
    /\ last_call.n_before > 1

\* the second of two equal calls came after the autopilot finished
C6_WitnessFinished ==
    /\ n_calls = 2
    /\ last_call.prev_tmax = last_call.tmax
    /\ last_call.status_before = "autopilot finished"

\* C9 as stated (for step >= 2*tol): simulate_to is rejected exactly when
\* the target time is below the last recorded time or the integrator is not
\* running on entry.
C9_RejectedBelowLastRecorded ==
    (n_calls >= 1 /\ step >= 2 * tol) =>
        (last_call.exc = "AssertionError"
            <=> (\/ last_call.tmax < last_call.t_before
                 \/ last_call.status_before # "running"))

\* C9 amended: simulate_to is rejected, appending nothing and leaving the
\* status unchanged, exactly when the target time is below cur_sim_time (the
\* largest target time accepted so far, 0 after construction) or the
\* integrator is not running on entry.
C9_RejectedBelowRequested ==
    n_calls >= 1 =>
        /\ last_call.exc = "AssertionError"
             <=> (\/ last_call.tmax < last_call.cur_before
                  \/ last_call.status_before # "running")
        /\ last_call.exc = "AssertionError"
             => /\ Len(times) = last_call.n_before
                /\ Len(states) = last_call.n_before
                /\ Len(modes) = last_call.n_before
                /\ integrator.status = last_call.status_before

\* a call rejected although its target is not below the last recorded time
C9_Witness ==
    /\ n_calls = 2
    /\ last_call.exc = "AssertionError"
    /\ last_call.status_before = "running"
    /\ last_call.tmax >= last_call.t_before

\* the autopilot never changes mode and never declares completion
ApPassive ==
    ap.sw1 = NoTime /\ ap.sw2 = NoTime /\ ap.fin = NoTime /\ ~ap.osc

\* one simulate_to call on a fresh engine, passive autopilot, no failure
C3_Case == n_calls = 1 /\ ApPassive /\ integrator.status = "running"

OutOfEnvelope(x) ==
    \E i \in 1..(Len(x) \div num_vars) :
        LET st == Slice(x, i, num_vars)
        IN  \/ st[ALPHA] <= -2 \/ st[ALPHA] >= 2
            \/ st[VEL] < 200 \/ st[VEL] > 3000
            \/ st[ALT] <= -10000 \/ st[ALT] >= 100000

C4_WitnessInitial ==
    /\ n_calls = 1
    /\ OutOfEnvelope(states[1])
    /\ integrator.status = "failed"
    /\ last_call.exc = "none"

\* the samples after the first at which the mode changed and the autopilot
\* did not declare completion
ModeChanges ==
    {k \in 2..Len(times) :
        /\ modes[k] # modes[k - 1]
        /\ ~(k = Len(times) /\ integrator.status = "autopilot finished")}

MaxOf(S) == CHOOSE k \in S : \A j \in S : j <= k

\* C8: the integrator is replaced exactly at the samples where the mode
\* changed (and the autopilot did not declare completion): the current
\* instance was constructed at the latest such sample's time and state (at
\* time 0 and the initial state if there is none), and an instance created
\* at the last sample of a call that is still running has taken no step.
C8_ReinitOnModeChange ==
    /\ integrator.id = 1 + Cardinality(ModeChanges)
    /\ n_created = integrator.id
    /\ IF ModeChanges = {}
       THEN integrator.t0 = 0 /\ integrator.y0 = states[1]
       ELSE /\ integrator.t0 = times[MaxOf(ModeChanges)]
            /\ integrator.y0 = states[MaxOf(ModeChanges)]
    /\ (Len(times) \in ModeChanges /\ integrator.status = "running")
         => /\ ~integrator.stepped
            /\ integrator.t = Last(times) /\ integrator.y = Last(states)

\* the mode changed at a sample and the run went on with the new instance
C8_Witness ==
    /\ n_calls >= 1
    /\ ModeChanges # {}
    /\ MaxOf(ModeChanges) < Len(times)
    /\ integrator.status = "running"
    /\ integrator.stepped
    /\ integrator.id >= 2

\* the samples of engine s recorded at times up to T
UpTo(s, T) ==
    LET n == Cardinality({i \in 1..Len(s.times) : s.times[i] <= T})
    IN  [times |-> SubSeq(s.times, 1, n), states |-> SubSeq(s.states, 1, n),
         modes |-> SubSeq(s.modes, 1, n)]

Recorded(s) ==
    [times |-> s.times, states |-> s.states, modes |-> s.modes,
     xd_list |-> s.xd_list, u_list |-> s.u_list, Nz_list |-> s.Nz_list,
     ps_list |-> s.ps_list, Ny_r_list |-> s.Ny_r_list]

\* simulate_to(T1) then simulate_to(T2) were made on a fresh engine, T1 < T2
C7_Case == n_calls = 2 /\ last_call.prev_tmax < last_call.tmax

C10_DerFuncEnvelope ==
    der_out.called =>
        LET x == der_in.x
            n == Len(x) \div num_vars
            r == der_out.r
            u_refs == get_checked_u_ref(der_in.a, 0, x)
        IN  /\ r.err \in {"none", "SimModelError"}
            /\ r.err = "SimModelError" <=> OutOfEnvelope(x)
            /\ r.err = "none" =>
                 /\ Len(r.xd) = n * num_vars
                 /\ \A i \in 1..n :
                      Slice(r.xd, i, num_vars)
                        = controlled_f16(0, Slice(x, i, num_vars),
                                         Slice(u_refs, i, NumURef)).xd

\* two different aircraft, one at airspeed 200 and one at 3000, are accepted
C10_Witness ==
    /\ der_out.called
    /\ der_out.r.err = "none"
    /\ Len(der_in.x) = 2 * num_vars
    /\ der_in.x[VEL] = 200
    /\ Slice(der_in.x, 2, num_vars) = <<3000, 1, 99999, 0>>
    /\ Slice(der_out.r.xd, 1, num_vars) # Slice(der_out.r.xd, 2, num_vars)

\* an aircraft at angle of attack 2 behind a valid one is rejected
C10_WitnessRejected ==
    /\ der_out.called
    /\ der_out.r.err = "SimModelError"
    /\ der_out.r.what = "alpha"
    /\ Len(der_in.x) = 2 * num_vars
    /\ der_in.x[ALPHA] = 0
    /\ der_in.x[num_vars + ALPHA] = 2

\* the engine constructed for the first aircraft of the initial state alone
Single ==
    F16SimState_init(Slice(states[1], 1, num_vars),
                     [ap EXCEPT !.mode = ApInitMode], extended_states)

\* the calls made so far, made on that engine instead
SingleRun ==
    IF res.kind # "none" THEN simulate_to(Single, res.tmax)
    ELSE IF n_calls = 1 THEN simulate_to(Single, last_call.tmax)
    ELSE simulate_to(simulate_to(Single, last_call.prev_tmax), last_call.tmax)

\* two aircraft with identical initial conditions, after one or two calls
C11_Case ==
    /\ Len(states[1]) = 2 * num_vars
    /\ Slice(states[1], 1, num_vars) = Slice(states[1], 2, num_vars)
    /\ (n_calls \in 1..2 \/ res.kind # "none")

\* C11: two aircraft simulated as one concatenated state, with identical
\* initial conditions, record the times, modes and status of the
\* single-aircraft simulation, and at every sample both per-aircraft
\* sub-states equal the single aircraft's state.
C11_TwinEqualsSingle ==
    C11_Case =>
        /\ times = SingleRun.times
        /\ modes = SingleRun.modes
        /\ integrator.status = SingleRun.integrator.status
        /\ Len(states) = Len(SingleRun.states)
        /\ \A k \in 1..Len(states) : \A i \in 1..2 :
              Slice(states[k], i, num_vars) = SingleRun.states[k]

\* two calls on the twin engine: a mode change, an interpolated sample, and
\* the failure at the altitude limit
C11_Witness ==
    /\ C11_Case
    /\ n_calls = 2
    /\ Len(times) >= 4
    /\ integrator.id >= 2
    /\ integrator.status = "failed"
    /\ integrator_str = "rk45"

(***************************************************************************)
(* Construction on its own: SpecNew starts before the constructor has run, *)
(* with an initial_state argument of any length up to MaxLen, and applies  *)
(* the constructor to it.                                                  *)
(***************************************************************************)
MaxLen == 9

\* the argument of length n: components inside the flight envelope
RawState(n) == [i \in 1..n |-> IF i % num_vars = ALPHA THEN 1 ELSE 500 + i]

InitNew ==
    /\ step = 1
    /\ tol = 1
    /\ integrator_str = "rk45"
    /\ h_adapt = 2
    /\ extended_states \in BOOLEAN
    /\ \E n \in 0..MaxLen : initial_state = RawState(n)
    /\ \E a \in Autopilots :
          LET s == Unbuilt(a)
          IN  /\ times = s.times /\ states = s.states /\ modes = s.modes
              /\ xd_list = s.xd_list /\ u_list = s.u_list
              /\ Nz_list = s.Nz_list /\ ps_list = s.ps_list
              /\ Ny_r_list = s.Ny_r_list /\ integrator = s.integrator
              /\ cur_sim_time = s.cur_sim_time /\ ap = s.ap
              /\ n_created = s.n_created
    /\ n_calls = 0
    /\ last_call = NoCall
    /\ res = NoRes
    /\ der_in = <<>>
    /\ der_out = NoDer

\* the constructor leaves the engine r, or raises r.exc
Constructs(r) ==
    /\ Becomes(r)
    /\ res' = IF r.exc = "none" THEN [kind |-> "constructed"]
              ELSE [kind |-> "raised", exc |-> r.exc, tmax |-> 0]

\* F16SimState(initial_state, ap, step, extended_states, integrator_str)
Construct ==
    /\ res.kind = "none"
    /\ integrator = NoIntegrator
    /\ Constructs(F16SimState_new(initial_state, ap, extended_states))
    /\ UNCHANGED <<Params, n_calls, last_call, der_in, der_out>>

NextNew == Construct

SpecNew == InitNew /\ [][NextNew]_vars

\* the state the constructor is to record for the argument x
PaddedTo(x, n) == [i \in 1..n |-> IF i <= Len(x) THEN x[i] ELSE 0]
Expected(x) == PaddedTo(x, IF Len(x) < num_vars THEN num_vars ELSE Len(x))

\* C12: the constructor records a short initial state followed by zeros up
\* to the per-aircraft length and a longer one unchanged; it raises, with
\* nothing recorded and the autopilot not yet called, exactly when that
\* length is no multiple of the per-aircraft length; otherwise the engine
\* holds one sample: time 0, the padded state, the mode after the
\* mode-advance at time 0.
C12_Construction ==
    res.kind # "none" =>
        /\ res.kind = "raised" <=> Len(Expected(initial_state)) % num_vars # 0
        /\ res.kind = "raised" =>
              /\ times = <<>> /\ states = <<>> /\ modes = <<>>
              /\ ap.mode = ApInitMode
              /\ integrator = NoIntegrator
        /\ res.kind = "constructed" =>
              /\ times = <<0>>
              /\ states = <<Expected(initial_state)>>
              /\ modes = <<DesiredMode(ap, 0)>>
              /\ ap.mode = modes[1]
              /\ integrator.status = "running"
              /\ integrator.t = 0 /\ integrator.y = states[1]
              /\ cur_sim_time = 0

\* a short argument was padded and the mode changed at time 0
C12_Witness ==
    /\ res.kind = "constructed"
    /\ Len(initial_state) \in 1..(num_vars - 1)
    /\ Len(states[1]) = num_vars
    /\ modes = <<"B">>

\* an argument longer than one aircraft, no multiple, was refused although
\* the autopilot would change mode at time 0
C12_WitnessRefused ==
    /\ res.kind = "raised"
    /\ Len(initial_state) > num_vars
    /\ ap.sw1 = 0

\* the samples recorded by the latest simulate_to call, but the last
NewSamples == {k \in 1..(Len(times) - 1) : k >= last_call.n_before}

\* the latest simulate_to call was accepted
Accepted == n_calls >= 1 /\ last_call.exc = "none"

\* the next sample time as C13 states it
StatedNext(last, tmax) == IF last + step > tmax + tol THEN tmax ELSE last + step

\* C13 as stated (for step >= 2*tol): every sample time of a call follows
\* the one before as last + step, replaced by the target exactly when
\* last + step is more than tol beyond the target; a call that ends running
\* ended because that time was beyond target + tol.
C13_ClampBeyondTol ==
    (Accepted /\ step >= 2 * tol) =>
        /\ \A k \in NewSamples :
              times[k + 1] = StatedNext(times[k], last_call.tmax)
        /\ integrator.status = "running"
             => StatedNext(Last(times), last_call.tmax) > last_call.tmax + tol

\* the next sample time: last + step, replaced by the target exactly when
\* last + step is beyond the target and last is more than tol away from it
ClampedNext(last, tmax) ==
    IF last + step > tmax /\ Abs(last - tmax) > tol THEN tmax ELSE last + step

\* C13 amended: every sample time of a call follows the one before as
\* last + step, replaced by the target exactly when last + step exceeds the
\* target and last is more than tol away from the target; a sample is
\* recorded only for a time below target + tol; a call that ends running
\* ended because that time was at or beyond target + tol, and a call that
\* ends failed stopped at a time below it.
C13_ClampBeyondTarget ==
    Accepted =>
        /\ \A k \in NewSamples :
              /\ times[k + 1] = ClampedNext(times[k], last_call.tmax)
              /\ times[k + 1] < last_call.tmax + tol
        /\ integrator.status = "running"
             => ClampedNext(Last(times), last_call.tmax) >= last_call.tmax + tol
        /\ (integrator.status = "failed" /\ last_call.status_before = "running")
             => ClampedNext(Last(times), last_call.tmax) < last_call.tmax + tol

\* a call whose last sample was moved to the target although last + step
\* was no more than tol beyond it
C13_Witness ==
    /\ Accepted
    /\ step >= 2 * tol
    /\ integrator.status = "running"
    /\ Len(times) >= last_call.n_before + 2
    /\ Last(times) = last_call.tmax
    /\ times[Len(times) - 1] + step > last_call.tmax
    /\ times[Len(times) - 1] + step <= last_call.tmax + tol

\* C14 (for step >= 2*tol): a simulate_to call that returns with status
\* running leaves the last recorded time strictly less than tol from the
\* target, so run_f16_sim raises only in a run that failed or that the
\* autopilot ended.
C14_FinalTimeWithinTol ==
    step >= 2 * tol =>
        /\ (Accepted /\ integrator.status = "running")
             => Abs(Last(times) - last_call.tmax) < tol
        /\ res.kind = "raised" => integrator.status # "running"

\* the autopilot declares completion at sample k
FinishedAt(k) == is_finished(ap, times[k], states[k])

\* C15: a sample recorded by simulate_to at which the autopilot declares
\* completion is the last one, and the status is then 'autopilot finished';
\* that sample has its state, the mode after the mode-advance and (with
\* tracking) its extended state computed in that mode; the integrator is
\* the instance that reached the sample, not a new one, even if the mode
\* changed at it.
C15_FinishingSampleIsLast ==
    LET n == Len(times)
    IN  /\ \A k \in 2..n :
              FinishedAt(k)
                => k = n /\ integrator.status = "autopilot finished"
        /\ integrator.status = "autopilot finished" =>
              /\ n >= 2 /\ FinishedAt(n)
              /\ Len(states) = n /\ Len(modes) = n
              /\ modes[n] = DesiredMode(ap, times[n])
              /\ ap.mode = modes[n]
              /\ extended_states =>
                    LET e == get_extended_states(ap, times[n], states[n])
                    IN  /\ Len(xd_list) = n /\ xd_list[n] = e.xd
                        /\ Len(u_list) = n /\ u_list[n] = e.u
                        /\ Len(Nz_list) = n /\ Nz_list[n] = e.Nz
                        /\ Len(ps_list) = n /\ ps_list[n] = e.ps
                        /\ Len(Ny_r_list) = n /\ Ny_r_list[n] = e.Ny_r
              /\ integrator.t0 < times[n]
              /\ integrator.id
                   = 1 + Cardinality({k \in 2..(n - 1) : modes[k] # modes[k - 1]})
              /\ n_created = integrator.id

\* the autopilot finished at a sample at which the mode also changed
C15_Witness ==
    /\ integrator.status = "autopilot finished"
    /\ extended_states
    /\ Len(times) >= 3
    /\ Last(modes) # modes[Len(modes) - 1]
    /\ integrator.stepped

\* C16: once the integrator status is 'failed' or 'autopilot finished', no
\* operation returns it to 'running', changes it, replaces the integrator
\* or appends a sample.
C16_TerminalStatus ==
    [][integrator.status \in {"failed", "autopilot finished"}
       => /\ integrator' = integrator
          /\ n_created' = n_created
          /\ times' = times /\ states' = states /\ modes' = modes
          /\ xd_list' = xd_list /\ u_list' = u_list /\ Nz_list' = Nz_list
          /\ ps_list' = ps_list /\ Ny_r_list' = Ny_r_list]_vars

\* a later call, with a target not reached yet, was made on an engine whose
\* autopilot had finished
C16_Witness ==
    /\ n_calls = 2
    /\ last_call.status_before = "autopilot finished"
    /\ last_call.tmax > last_call.t_before + step
    /\ last_call.tmax >= last_call.cur_before

\* a later call was made on an engine whose integrator had failed
C16_WitnessFailed ==
    /\ n_calls = 2
    /\ last_call.status_before = "failed"
    /\ last_call.tmax > last_call.t_before + step
    /\ last_call.tmax >= last_call.cur_before

(***************************************************************************)
(* Collaborators that raise: SpecAbort is Spec with an autopilot,          *)
(* extended-state evaluation or dense output that raises an exception of   *)
(* its own from some time after construction on.                           *)
(***************************************************************************)
FaultyAutopilots ==
    {[a EXCEPT !.bad = b[1], !.bad_at = b[2]] :
        a \in {a0 \in Autopilots :
                  a0.fin = NoTime /\ a0.sw2 = NoTime /\ ~a0.osc},
        b \in {"advance", "finished", "extended", "dense"} \X {1, 3}}

InitAbort ==
    /\ \E st \in StepTol : step = st[1] /\ tol = st[2]
    /\ \E ig \in Integrators : integrator_str = ig[1] /\ h_adapt = ig[2]
    /\ extended_states \in BOOLEAN
    /\ initial_state = <<500, 0, 1000>>
    /\ \E a \in FaultyAutopilots :
          Constructed(initial_state, a, extended_states)
    /\ n_calls = 0
    /\ last_call = NoCall
    /\ res = NoRes
    /\ der_in = <<>>
    /\ der_out = NoDer

NextAbort == \E tmax \in Targets : SimulateTo(tmax)

SpecAbort == InitAbort /\ [][NextAbort]_vars

\* C17: times, states and modes, and with tracking every extended-state
\* list, have the same length in every state of the engine, also in the
\* state a simulate_to call leaves behind when an exception of a
\* collaborator ends it while a sample is being recorded.
C17_AlignedAfterAbort ==
    /\ Len(times) = Len(states)
    /\ Len(states) = Len(modes)
    /\ extended_states =>
          /\ Len(xd_list) = Len(times) /\ Len(u_list) = Len(times)
          /\ Len(Nz_list) = Len(times) /\ Len(ps_list) = Len(times)
          /\ Len(Ny_r_list) = Len(times)

\* the engine constructed with the other setting of extended_states
Flipped ==
    F16SimState_init(initial_state, [ap EXCEPT !.mode = ApInitMode],
                     ~extended_states)

\* the calls made so far, made on that engine instead
FlippedRun ==
    IF res.kind # "none" THEN simulate_to(Flipped, res.tmax)
    ELSE IF n_calls = 1 THEN simulate_to(Flipped, last_call.tmax)
    ELSE simulate_to(simulate_to(Flipped, last_call.prev_tmax), last_call.tmax)

\* everything an engine holds but the extended-state lists
Core(s) ==
    [times |-> s.times, states |-> s.states, modes |-> s.modes,
     integrator |-> s.integrator, ap |-> s.ap,
     cur_sim_time |-> s.cur_sim_time, n_created |-> s.n_created]

\* the extended state of sample k, evaluated in the mode recorded for it
ExtendedOf(k) ==
    get_extended_states([ap EXCEPT !.mode = modes[k]], times[k], states[k])

\* C18: with tracking every extended-state list has one entry per recorded
\* sample, the initial one included: the extended state at that sample's
\* time and state in the mode after its mode-advance; without tracking the
\* lists stay empty; and the trajectory, the integrator and the autopilot
\* are the same with and without tracking.
C18_OneExtendedPerSample ==
    /\ extended_states =>
          /\ Len(xd_list) = Len(times) /\ Len(u_list) = Len(times)
          /\ Len(Nz_list) = Len(times) /\ Len(ps_list) = Len(times)
          /\ Len(Ny_r_list) = Len(times)
          /\ Len(states) = Len(times) /\ Len(modes) = Len(times)
          /\ \A k \in 1..Len(times) :
                /\ xd_list[k] = ExtendedOf(k).xd
                /\ u_list[k] = ExtendedOf(k).u
                /\ Nz_list[k] = ExtendedOf(k).Nz
                /\ ps_list[k] = ExtendedOf(k).ps
                /\ Ny_r_list[k] = ExtendedOf(k).Ny_r
    /\ ~extended_states =>
          /\ xd_list = <<>> /\ u_list = <<>> /\ Nz_list = <<>>
          /\ ps_list = <<>> /\ Ny_r_list = <<>>
    /\ (n_calls \in 1..2 \/ res.kind # "none")
          => Core(Self) = Core(FlippedRun)

\* two calls with tracking, with a mode change at a recorded sample
C18_Witness ==
    /\ extended_states
    /\ n_calls = 2
    /\ last_call.exc = "none"
    /\ last_call.n_before >= 2
    /\ Len(times) >= last_call.n_before + 2
    /\ integrator.id >= 2
    /\ Nz_list[Len(times)] # Nz_list[2]

\* the least whole number not below a / b, for b > 0
Ceil(a, b) == -((-a) \div b)

\* C19: for step >= 2*tol > 0 and an integrator whose every step advances
\* its time, every simulate_to call ends; it appends samples of strictly
\* increasing time, at most ceil((T - last recorded time) / step) of them,
\* and constructs at most one integrator per appended sample, also when the
\* mode changes at every sample.
C19_BoundedWork ==
    (n_calls >= 1 /\ step >= 2 * tol /\ tol > 0) =>
        LET appended == Len(times) - last_call.n_before
        IN  /\ appended >= 0
            /\ appended <= Ceil(last_call.tmax - last_call.t_before, step)
                  \/ (appended = 0 /\ last_call.exc = "AssertionError")
            /\ \A k \in NewSamples : times[k] < times[k + 1]
            /\ integrator.id - last_call.id_before <= appended
            /\ integrator.id - last_call.id_before >= 0
            /\ n_created = integrator.id

\* a call that appended as many samples as the bound allows and constructed
\* an integrator at every one of them
C19_Witness ==
    /\ n_calls = 2
    /\ step >= 2 * tol
    /\ ap.osc
    /\ Len(times) - last_call.n_before
         = Ceil(last_call.tmax - last_call.t_before, step)
    /\ Len(times) - last_call.n_before >= 2
    /\ integrator.id - last_call.id_before = Len(times) - last_call.n_before

\* C20 (for step >= tol): every dense-output query of a simulate_to call is
\* made on an integrator that has taken a step since it was created, for a
\* time within that integrator's last step.
C20_DenseQueriesLegal ==
    step >= tol =>
        /\ last_call.exc # "RuntimeError"
        /\ \A q \in last_call.dense :
              q.stepped /\ q.t_old <= q.at /\ q.at <= q.t

\* a second call queried the dense output of an integrator re-created after
\* a mode change, for the shortened final sample
C20_Witness ==
    /\ n_calls = 2
    /\ step >= tol
    /\ last_call.n_before >= 2
    /\ integrator.id >= 2
    /\ \E q \in last_call.dense :
          /\ q.at = last_call.tmax /\ q.at % step # 0
          /\ integrator.t0 > 0 /\ q.t_old >= integrator.t0

====
